---- MODULE Spec2Model ----
(***************************************************************************)
(* Model of the point-cloud viewer (src/src/App.jsx).                      *)
(*                                                                         *)
(* JavaScript is single threaded: every action below is one task of the    *)
(* event loop (an event handler, or the continuation of loadShape after    *)
(* an await), run to completion.  React re-renders between tasks, so the   *)
(* states of the model are the states a user or a render frame can see.    *)
(*                                                                         *)
(* Numbers: angles are integers in units of 1/10000 rad, lengths in units  *)
(* of 1/1000 (so 0.008 rad per pixel is 80, and 0.004 per wheel unit is    *)
(* 4); floating-point rounding is not modelled.                            *)
(***************************************************************************)
EXTENDS Integers, Sequences, FiniteSets, TLC

VARIABLES
    shape,       \* useState: current shape selection
    stats,       \* useState: stats record, NoStats when null
    loading,     \* useState: loading flag
    error,       \* useState: error text, NoError when null
    scene,       \* ids of the THREE.Points children of the scene
    pointsRef,   \* pointsRef.current: id of a Points object, Null when null
    objs,        \* every THREE.Points object built so far, by id
    calls,       \* every loadShape invocation so far, by call id
    lastDone,    \* history: the loadShape call that completed most recently,
                 \* how it ended, and whether a response to it had an error status
    rendered,    \* what the most recent frame of the render loop drew
    isDragging,  \* orbit: drag state
    prevMouse,   \* orbit: previous pointer position
    spherical,   \* orbit: azimuth theta and polar angle phi
    radius,      \* orbit: distance from the origin
    camera,      \* camera.position, in spherical form
    pointer      \* history: whether the last button event on the viewport was
                 \* a press, and the kind of the last pointer event

loadVars  == <<shape, stats, loading, error, scene, pointsRef, objs, calls, lastDone>>
frameVars == <<rendered>>
orbitVars == <<isDragging, prevMouse, spherical, radius, camera>>
vars == <<shape, stats, loading, error, scene, pointsRef, objs, calls, lastDone,
          rendered, isDragging, prevMouse, spherical, radius, camera, pointer>>

----------------------------------------------------------------------------
(* Bounds of the model *)

MaxCalls == 2        \* loadShape invocations, the one made on mount included
NumShapes == 2       \* how many of the shape buttons are clicked
MaxPoints == 1       \* longest point list a response carries
MaxTheta == 8000     \* |azimuth| explored, in 1/10000 rad

----------------------------------------------------------------------------
(* Program constants *)

SHAPES == <<"sphere", "torus", "plane", "helix", "cylinder", "cube", "octahedron">>

ColorNames == {"sphere", "torus", "plane", "helix", "cylinder", "cube", "random", "octahedron"}

COLORS(name) ==
    CASE name = "sphere"     -> "#00e5ff"
      [] name = "torus"      -> "#ff6b6b"
      [] name = "plane"      -> "#69ff47"
      [] name = "helix"      -> "#ffd600"
      [] name = "cylinder"   -> "#ff3d00"
      [] name = "cube"       -> "#40c4ff"
      [] name = "random"     -> "#f040f1"
      [] name = "octahedron" -> "#7c4dff"
      [] OTHER               -> "undefined"

ErrMsg == "Could not connect to backend. Make sure FastAPI is running on :8000"
NoError == "null"
Null == 0
NoStats == [kind |-> "null", call |-> 0]

PI == 31416          \* Math.PI in 1/10000 rad
PhiEps == 1000       \* 0.1 rad
MinRadius == 1200    \* 1.2
MaxRadius == 8000    \* 8
InitRadius == 2800   \* 2.8
DragGain == 80       \* 0.008 rad per pixel
WheelGain == 4       \* 0.004 per wheel delta unit
Float32Precision == 16777216   \* 2^24: a Float32Array element has a 24-bit significand

----------------------------------------------------------------------------
(* Inputs *)

ClickShapes == {SHAPES[i] : i \in 1..NumShapes}

Point(i) == [x |-> 3 * i - 2, y |-> 3 * i - 1, z |-> 3 * i]
PointList(n) == [i \in 1..n |-> Point(i)]

NoBody == [kind |-> "none", data |-> <<>>]
\* a body is a JSON list of points, some other JSON value, or not JSON at all
PointsBodies ==
    {[kind |-> "list", data |-> PointList(n)] : n \in 0..MaxPoints}
      \cup {[kind |-> "other", data |-> <<>>], [kind |-> "garbage", data |-> <<>>]}
StatsBodies == {[kind |-> k, data |-> <<>>] : k \in {"stats", "other", "garbage"}}

\* what fetch can deliver: a network error, or a response with a status and a body
Responses(bodies) ==
    {[status |-> "neterr", body |-> NoBody]}
      \cup {[status |-> s, body |-> b] : s \in {"ok", "httperr"}, b \in bodies}

\* coordinates for the construction of the position buffer, as multiples of a
\* fixed power of two: zero, and two values that need 25 bits (ties both ways)
Coords == {0, 16777217, -16777219}
BuildPoints == [x : Coords, y : Coords, z : Coords]
BuildBodies ==
    {[kind |-> "list", data |-> l] :
        l \in UNION {[1..n -> BuildPoints] : n \in 0..MaxPoints}}
      \cup {[kind |-> "other", data |-> <<>>], [kind |-> "garbage", data |-> <<>>]}

MouseX == {0, 100}
MouseY == {0, 100, 400}
WheelDeltas == {-2000, -100, 100, 2000}

----------------------------------------------------------------------------
(* Helpers *)

Max(a, b) == IF a >= b THEN a ELSE b
Min(a, b) == IF a <= b THEN a ELSE b
Abs(a) == IF a >= 0 THEN a ELSE -a

\* (variant) the body is used without being parsed
FetchRejectsNetOnly(resp) == resp.status = "neterr"

\* fetch(url).then(x => x.json()) rejects on a network error or when the body
\* is not JSON; the status of the response is not looked at
FetchRejects(resp) == resp.status = "neterr" \/ resp.body.kind = "garbage"

\* rawPoints.flatMap(p => [p.x, p.y, p.z]) throws a TypeError unless rawPoints
\* is a list (a list with a null element throws at the same place); body kind
\* "other" stands for every parsed body on which it throws
FlatMapThrows(rawPoints) == rawPoints.kind # "list"

\* (variant) x and y swapped
RECURSIVE FlatMapSwapped(_)
FlatMapSwapped(ps) ==
    IF ps = <<>> THEN <<>>
    ELSE <<Head(ps).y, Head(ps).x, Head(ps).z>> \o FlatMapSwapped(Tail(ps))

RECURSIVE FlatMap(_)
FlatMap(ps) ==
    IF ps = <<>> THEN <<>>
    ELSE <<Head(ps).x, Head(ps).y, Head(ps).z>> \o FlatMap(Tail(ps))

\* the spacing of the single-precision numbers around magnitude a
RECURSIVE Quantum(_, _)
Quantum(a, q) == IF a < Float32Precision * q THEN q ELSE Quantum(a, 2 * q)

\* storing a number into a Float32Array: round to the nearest single-precision
\* number, ties to the even significand (overflow and subnormals are out of
\* the range of Coords)
Fround(v) ==
    LET a == Abs(v)
        q == Quantum(a, 1)
        r == a % q
        lo == a - r
        up == 2 * r > q \/ (2 * r = q /\ (lo \div q) % 2 = 1)
        m == IF up THEN lo + q ELSE lo
    IN IF v < 0 THEN -m ELSE m

\* new Float32Array(numbers)
Float32Array(ns) == [i \in 1..Len(ns) |-> Fround(ns[i])]

\* COLORS[shapeName] || "#ffffff"
ColorOf(shapeName) ==
    IF COLORS(shapeName) = "undefined" THEN "#ffffff" ELSE COLORS(shapeName)

\* (variant) the old object is left in the scene
SceneRemoveNothing(sc, obj) == sc

\* scene.remove(obj)
SceneRemove(sc, obj) == sc \ {obj}

\* (variant) the new object is not attached
SceneAddNothing(sc, obj) == sc

\* scene.add(obj)
SceneAdd(sc, obj) == sc \cup {obj}

\* (variant) the material is not released
DisposeGeometryOnly(os, obj) ==
    [os EXCEPT ![obj].geoDisposed = @ + 1]

\* obj.geometry.dispose(); obj.material.dispose()
Dispose(os, obj) ==
    [os EXCEPT ![obj].geoDisposed = @ + 1, ![obj].matDisposed = @ + 1]

\* new THREE.Points(geometry, material) for a call's data
NewPoints(id, shapeName, rawPoints) ==
    [call        |-> id,
     positions   |-> Float32Array(FlatMap(rawPoints.data)),
     color       |-> ColorOf(shapeName),
     geoDisposed |-> 0,
     matDisposed |-> 0]

NewCall(shapeName) ==
    [shapeName |-> shapeName, pc |-> "points", rawPoints |-> NoBody, httpErr |-> FALSE]

\* a call that has returned: its locals are gone, only how it ended is kept
Returned(outcome) ==
    [shapeName |-> "", pc |-> outcome, rawPoints |-> NoBody, httpErr |-> FALSE]

InFlight(id) == calls[id].pc \in {"points", "stats"}
CallIds == 1..Len(calls)
ObjIds == 1..Len(objs)
Live(o) == objs[o].geoDisposed = 0 /\ objs[o].matDisposed = 0
Released(o) == objs[o].geoDisposed > 0 /\ objs[o].matDisposed > 0

\* camera.position.set(r sin(phi) sin(theta), r cos(phi), r sin(phi) cos(theta)):
\* the position is kept as the spherical coordinates it is the image of
PositionSet(r, theta, phi) == [len |-> r, theta |-> theta, phi |-> phi]

\* (variant) the vector is scaled by the radius
MultiplyScalar(pos, len) == [pos EXCEPT !.len = (@ * len) \div 1000]

\* camera.position.setLength(len): same direction, new length
SetLength(pos, len) == [pos EXCEPT !.len = len]

\* (variant) no clamp at the south pole
ClampPhiNoUpper(phi) == Max(PhiEps, phi)

\* Math.max(0.1, Math.min(Math.PI - 0.1, phi))
ClampPhi(phi) == Max(PhiEps, Min(PI - PhiEps, phi))

\* (variant) no lower clamp
ClampRadiusNoLower(r) == Min(MaxRadius, r)

\* Math.max(1.2, Math.min(8, r))
ClampRadius(r) == Max(MinRadius, Min(MaxRadius, r))

----------------------------------------------------------------------------
(* Initial state: the component is mounted, both mount effects have run,   *)
(* so the scene exists and loadShape("sphere") is awaiting its points.     *)

Init ==
    /\ shape = "sphere"
    /\ stats = NoStats
    /\ loading = TRUE
    /\ error = NoError
    /\ scene = {}
    /\ pointsRef = Null
    /\ objs = <<>>
    /\ calls = <<NewCall("sphere")>>
    /\ lastDone = [id |-> 0, outcome |-> "none", httpErr |-> FALSE]
    /\ rendered = [clouds |-> {}, attached |-> FALSE]
    /\ isDragging = FALSE
    /\ prevMouse = [x |-> 0, y |-> 0]
    /\ spherical = [theta |-> 0, phi |-> PI \div 2]
    /\ radius = InitRadius
    /\ camera = PositionSet(InitRadius, 0, PI \div 2)
    /\ pointer = [pressed |-> FALSE, last |-> "none"]

----------------------------------------------------------------------------
(* loadShape *)

\* loadShape up to its first await
Invoke(shapeName) ==
    /\ Len(calls) < MaxCalls
    /\ loading' = TRUE
    /\ error' = NoError
    /\ calls' = Append(calls, NewCall(shapeName))

\* a shape button: setShape(s); loadShape(s)
ClickShape(s) ==
    /\ Invoke(s)
    /\ shape' = s
    /\ UNCHANGED <<stats, scene, pointsRef, objs, lastDone, frameVars, orbitVars, pointer>>

\* the reload button's disabled={loading}
ReloadDisabled == loading

\* (variant) reloading also puts the camera back at its starting distance
ClickReloadResetView ==
    /\ ~ReloadDisabled
    /\ Invoke(shape)
    /\ radius' = InitRadius
    /\ camera' = SetLength(camera, InitRadius)
    /\ UNCHANGED <<shape, stats, scene, pointsRef, objs, lastDone, frameVars,
                   isDragging, prevMouse, spherical, pointer>>

\* the reload button: loadShape(shape)
ClickReload ==
    /\ ~ReloadDisabled
    /\ Invoke(shape)
    /\ UNCHANGED <<shape, stats, scene, pointsRef, objs, lastDone, frameVars, orbitVars, pointer>>

\* (variant) no finally block: a failure leaves the loading flag as it is
CatchNoFinally(id, cs) ==
    /\ error' = ErrMsg
    /\ UNCHANGED loading
    /\ calls' = [cs EXCEPT ![id] = Returned("failed")]
    /\ lastDone' = [id |-> id, outcome |-> "failed", httpErr |-> cs[id].httpErr]

\* catch { setError(...) } finally { setLoading(false) }
Catch(id, cs) ==
    /\ error' = ErrMsg
    /\ loading' = FALSE
    /\ calls' = [cs EXCEPT ![id] = Returned("failed")]
    /\ lastDone' = [id |-> id, outcome |-> "failed", httpErr |-> cs[id].httpErr]

\* the points fetch of call id settles
PointsSettle(id, resp) ==
    /\ calls[id].pc = "points"
    /\ LET cs == [calls EXCEPT ![id].httpErr = @ \/ resp.status = "httperr"] IN
       IF FetchRejects(resp)
       THEN /\ Catch(id, cs)
            /\ UNCHANGED <<shape, stats, scene, pointsRef, objs>>
       ELSE /\ calls' = [cs EXCEPT ![id].rawPoints = resp.body, ![id].pc = "stats"]
            /\ UNCHANGED <<shape, stats, loading, error, scene, pointsRef, objs, lastDone>>
    /\ UNCHANGED <<frameVars, orbitVars, pointer>>

\* the stats fetch of call id settles; on success the rest of the try block runs
StatsSettle(id, resp) ==
    /\ calls[id].pc = "stats"
    /\ LET cs == [calls EXCEPT ![id].httpErr = @ \/ resp.status = "httperr"]
           hadOld == pointsRef # Null
           scene1 == IF hadOld THEN SceneRemove(scene, pointsRef) ELSE scene
           objs1 == IF hadOld THEN Dispose(objs, pointsRef) ELSE objs
           new == Len(objs) + 1
       IN
       IF FetchRejects(resp)
       THEN /\ Catch(id, cs)
            /\ UNCHANGED <<shape, stats, scene, pointsRef, objs>>
       ELSE /\ stats' = [kind |-> resp.body.kind, call |-> id]
            /\ IF FlatMapThrows(calls[id].rawPoints)
               THEN /\ scene' = scene1
                    /\ objs' = objs1
                    /\ pointsRef' = pointsRef
                    /\ Catch(id, cs)
               ELSE /\ objs' = Append(objs1,
                                      NewPoints(id, calls[id].shapeName, calls[id].rawPoints))
                    /\ scene' = SceneAdd(scene1, new)
                    /\ pointsRef' = new
                    /\ loading' = FALSE
                    /\ calls' = [cs EXCEPT ![id] = Returned("ok")]
                    /\ lastDone' = [id |-> id, outcome |-> "ok", httpErr |-> cs[id].httpErr]
                    /\ UNCHANGED error
            /\ UNCHANGED shape
    /\ UNCHANGED <<frameVars, orbitVars, pointer>>

----------------------------------------------------------------------------
(* Render loop *)

\* animate: renderer.render(scene, camera) draws the scene as it is now;
\* attached records whether a point cloud had been attached by then
Animate ==
    /\ rendered' = [clouds |-> scene, attached |-> pointsRef # Null]
    /\ UNCHANGED <<loadVars, orbitVars, pointer>>

----------------------------------------------------------------------------
(* Orbit camera *)

MouseDown(x, y) ==
    /\ isDragging' = TRUE
    /\ prevMouse' = [x |-> x, y |-> y]
    /\ UNCHANGED <<spherical, radius, camera, loadVars, frameVars>>

MouseUp ==
    /\ isDragging' = FALSE
    /\ UNCHANGED <<prevMouse, spherical, radius, camera, loadVars, frameVars>>

\* (variant) no check of the drag state
MouseMoveAlways(x, y) ==
    /\ LET dx == x - prevMouse.x
           dy == y - prevMouse.y
           theta == spherical.theta - dx * DragGain
           phi == ClampPhi(spherical.phi + dy * DragGain)
       IN /\ Abs(theta) <= MaxTheta
          /\ spherical' = [theta |-> theta, phi |-> phi]
          /\ prevMouse' = [x |-> x, y |-> y]
          /\ camera' = PositionSet(radius, theta, phi)
          /\ UNCHANGED <<isDragging, radius>>
    /\ UNCHANGED <<loadVars, frameVars>>

MouseMove(x, y) ==
    /\ IF ~isDragging
       THEN UNCHANGED orbitVars
       ELSE LET dx == x - prevMouse.x
                dy == y - prevMouse.y
                theta == spherical.theta - dx * DragGain
                phi == ClampPhi(spherical.phi + dy * DragGain)
            IN /\ Abs(theta) <= MaxTheta
               /\ spherical' = [theta |-> theta, phi |-> phi]
               /\ prevMouse' = [x |-> x, y |-> y]
               /\ camera' = PositionSet(radius, theta, phi)
               /\ UNCHANGED <<isDragging, radius>>
    /\ UNCHANGED <<loadVars, frameVars>>

Wheel(deltaY) ==
    /\ radius' = ClampRadius(radius + deltaY * WheelGain)
    /\ camera' = SetLength(camera, radius')
    /\ UNCHANGED <<isDragging, prevMouse, spherical, loadVars, frameVars>>

----------------------------------------------------------------------------
(* Specifications *)

NextLoad ==
    \/ \E s \in ClickShapes : ClickShape(s)
    \/ ClickReload
    \/ \E id \in CallIds : \E resp \in Responses(PointsBodies) : PointsSettle(id, resp)
    \/ \E id \in CallIds : \E resp \in Responses(StatsBodies) : StatsSettle(id, resp)

NextRender ==
    \/ NextLoad
    \/ Animate

NextOrbit ==
    \/ \E x \in MouseX : \E y \in MouseY :
           MouseDown(x, y) /\ pointer' = [pressed |-> TRUE, last |-> "down"]
    \/ MouseUp /\ pointer' = [pressed |-> FALSE, last |-> "up"]
    \/ \E x \in MouseX : \E y \in MouseY :
           MouseMove(x, y) /\ pointer' = [pointer EXCEPT !.last = "move"]
    \/ \E d \in WheelDeltas :
           Wheel(d) /\ pointer' = [pointer EXCEPT !.last = "wheel"]

\* zooming in, for the viewer as a whole
NextZoom == Wheel(-2000) /\ pointer' = [pointer EXCEPT !.last = "wheel"]

Next == NextRender \/ NextOrbit

\* the whole viewer
Spec == Init /\ [][Next]_vars
\* loading only
SpecLoad == Init /\ [][NextLoad]_vars
\* a fetch of call id settles
Settle(id) ==
    /\ id \in CallIds
    /\ \/ \E resp \in Responses(PointsBodies) : PointsSettle(id, resp)
       \/ \E resp \in Responses(StatsBodies) : StatsSettle(id, resp)

\* loading, every fetch that was issued settling in the end (the network
\* layer resolves or rejects each request)
SpecLoadFair == SpecLoad /\ \A id \in 1..MaxCalls : WF_vars(Settle(id))

\* The viewer when the first load starts: the orbit state is the initial one,
\* or the one in the middle of a drag that followed a zoom (wheel 2000, press
\* at (0, 0), move to (100, 400)) made before the mount effect's load settles.
InitView ==
    /\ shape = "sphere"
    /\ stats = NoStats
    /\ loading = TRUE
    /\ error = NoError
    /\ scene = {}
    /\ pointsRef = Null
    /\ objs = <<>>
    /\ calls = <<NewCall("sphere")>>
    /\ lastDone = [id |-> 0, outcome |-> "none", httpErr |-> FALSE]
    /\ rendered = [clouds |-> {}, attached |-> FALSE]
    /\ \/ /\ isDragging = FALSE
          /\ prevMouse = [x |-> 0, y |-> 0]
          /\ spherical = [theta |-> 0, phi |-> PI \div 2]
          /\ radius = InitRadius
          /\ camera = PositionSet(InitRadius, 0, PI \div 2)
          /\ pointer = [pressed |-> FALSE, last |-> "none"]
       \/ /\ isDragging = TRUE
          /\ prevMouse = [x |-> 100, y |-> 400]
          /\ spherical = [theta |-> -100 * DragGain, phi |-> ClampPhi(PI \div 2 + 400 * DragGain)]
          /\ radius = ClampRadius(InitRadius + 2000 * WheelGain)
          /\ camera = PositionSet(radius, spherical.theta, spherical.phi)
          /\ pointer = [pressed |-> TRUE, last |-> "move"]

\* loading while the camera is in use
SpecView == InitView /\ [][NextLoad \/ NextZoom]_vars

\* The viewer after the load made on mount has failed on a network error and
\* a shape button has been clicked, for every button.
InitBuild ==
    /\ shape \in {SHAPES[i] : i \in DOMAIN SHAPES}
    /\ stats = NoStats
    /\ loading = TRUE
    /\ error = NoError
    /\ scene = {}
    /\ pointsRef = Null
    /\ objs = <<>>
    /\ calls = <<Returned("failed"), NewCall(shape)>>
    /\ lastDone = [id |-> 1, outcome |-> "failed", httpErr |-> FALSE]
    /\ rendered = [clouds |-> {}, attached |-> FALSE]
    /\ isDragging = FALSE
    /\ prevMouse = [x |-> 0, y |-> 0]
    /\ spherical = [theta |-> 0, phi |-> PI \div 2]
    /\ radius = InitRadius
    /\ camera = PositionSet(InitRadius, 0, PI \div 2)
    /\ pointer = [pressed |-> FALSE, last |-> "none"]

NextBuild ==
    \/ \E id \in {i \in CallIds : calls[i].pc = "points"} :
           \E resp \in Responses(BuildBodies) : PointsSettle(id, resp)
    \/ \E id \in CallIds : \E resp \in Responses(StatsBodies) : StatsSettle(id, resp)

\* the construction of the render object, over every shape button and over
\* point lists whose coordinates do and do not fit single precision
SpecBuild == InitBuild /\ [][NextBuild]_vars

\* loading under the running render loop
SpecRender == Init /\ [][NextRender]_vars
\* the orbit camera, no load completing
SpecOrbit == Init /\ [][NextOrbit]_vars

----------------------------------------------------------------------------
(* Properties *)

SomeInFlight == \E id \in CallIds : InFlight(id)

\* a step in which call id takes its failure path
FailsNow(id) == InFlight(id) /\ calls'[id].pc = "failed"

\* C1: a loadShape call that takes the failure path leaves the stats, the
\* point clouds attached to the scene, the current object and every
\* object's geometry and material as they were; only error and loading change.
C1_FailureLeavesStore ==
    [][\A id \in CallIds :
          FailsNow(id) =>
              /\ stats' = stats
              /\ scene' = scene
              /\ pointsRef' = pointsRef
              /\ objs' = objs]_vars

\* C2: the loading flag is true exactly while some loadShape call is in flight.
C2_LoadingFlag == loading <=> SomeInFlight

\* C3: at most one point cloud is attached to the scene, and when the load
\* that completed most recently succeeded, exactly one is attached: the
\* current object, built by that load.
C3_SingleRenderObject ==
    /\ Cardinality(scene) <= 1
    /\ lastDone.outcome = "ok" =>
           /\ pointsRef # Null
           /\ scene = {pointsRef}
           /\ objs[pointsRef].call = lastDone.id

\* two overlapping loads have both succeeded, the one issued first completing last
C3_Witness ==
    /\ lastDone = [id |-> 1, outcome |-> "ok", httpErr |-> FALSE]
    /\ Len(objs) = 2
    /\ objs[1].call = 2

\* C4: after N successful loads N objects have been built, the geometry and
\* material of the last one are live and those of the N-1 others are released.
C4_Disposal ==
    lastDone.outcome = "ok" =>
        /\ Len(objs) = Cardinality({id \in CallIds : calls[id].pc = "ok"})
        /\ \A o \in ObjIds : IF o = Len(objs) THEN Live(o) ELSE Released(o)
        /\ pointsRef = Len(objs)

\* a second successful load has released the object of the first
C4_Witness ==
    /\ lastDone.outcome = "ok"
    /\ Len(objs) = 2
    /\ Released(1)
    /\ Live(2)

\* C5 as stated: the polar angle is strictly inside (eps, pi - eps).
C5_PhiOpen == PhiEps < spherical.phi /\ spherical.phi < PI - PhiEps

\* C5 amended: the polar angle is inside the closed interval [eps, pi - eps].
C5_PhiClosed == PhiEps <= spherical.phi /\ spherical.phi <= PI - PhiEps

\* a drag has pushed the polar angle onto the clamp
C5_Witness == isDragging /\ spherical.phi = PI - PhiEps /\ prevMouse.y = 400

\* C6: the orbit radius is within [MinRadius, MaxRadius], whatever wheel and
\* drag events have happened.
C6_RadiusRange == MinRadius <= radius /\ radius <= MaxRadius

\* zoomed all the way in, after a drag has moved the camera
C6_Witness == radius = MinRadius /\ spherical.theta # 0 /\ camera.len = MinRadius

\* C7: stats that are present are those of the load that built the attached
\* point cloud, the most recent load to succeed.
C7_StatsMatchCloud ==
    stats # NoStats =>
        /\ Len(objs) > 0
        /\ scene = {Len(objs)}
        /\ objs[Len(objs)].call = stats.call
        /\ calls[stats.call].pc = "ok"

\* C8: a call one of whose responses had a non-success status ends as a
\* failure: the error message is set, stats and point cloud do not change.
C8_HttpErrorFails ==
    [][(lastDone' # lastDone /\ lastDone'.httpErr) =>
          /\ lastDone'.outcome = "failed"
          /\ error' = ErrMsg
          /\ stats' = stats
          /\ scene' = scene
          /\ pointsRef' = pointsRef]_vars

\* C9: the reload control is disabled while a loadShape call is in flight.
C9_ReloadDisabled == SomeInFlight => ReloadDisabled

\* C10: a frame drawn after a point cloud has been attached draws exactly one.
C10_FrameSeesOneCloud == rendered.attached => Cardinality(rendered.clouds) = 1

\* C11: every loadShape call that is in flight completes once its fetches
\* settle, the step that completes it leaves the loading flag false on the
\* success path and on every failure path, and in the end the flag is false
\* and stays false.
C11_LoadingCleared ==
    /\ \A id \in 1..MaxCalls :
           (id \in CallIds /\ InFlight(id)) ~> (id \in CallIds /\ ~InFlight(id))
    /\ [][\A id \in CallIds :
             (InFlight(id) /\ calls'[id].pc \in {"ok", "failed"}) => ~loading']_vars
    /\ <>[](~loading)

\* every call has returned, one on the failure path and one on the success
\* path, and the flag is false
C11_Witness ==
    /\ Len(calls) = MaxCalls
    /\ ~SomeInFlight
    /\ \E a, b \in CallIds : calls[a].pc = "failed" /\ calls[b].pc = "ok"
    /\ ~loading

\* C12: no call is cancelled (a call leaves the in-flight state only by
\* returning), and once two calls have both succeeded, the attached point
\* cloud and the stats are those of the one that completed last, whichever
\* was issued first.
C12_LastResponseWins ==
    /\ [][\A id \in CallIds :
             InFlight(id) => calls'[id].pc \in {"points", "stats", "ok", "failed"}
                             /\ (calls'[id].pc = "points" => calls'[id] = calls[id])]_vars
    /\ [](\A a, b \in CallIds :
             (a # b /\ calls[a].pc = "ok" /\ calls[b].pc = "ok" /\ lastDone.id = a) =>
                 /\ pointsRef # Null
                 /\ scene = {pointsRef}
                 /\ objs[pointsRef].call = a
                 /\ stats.call = a)

\* the sphere load of the mount and a torus load overlapped, the torus load
\* completed first: torus is selected, the sphere cloud and stats are shown
C12_Witness ==
    /\ shape = "torus"
    /\ calls[1].pc = "ok"
    /\ Len(calls) = 2 /\ calls[2].pc = "ok"
    /\ lastDone.id = 1
    /\ pointsRef # Null
    /\ objs[pointsRef].color = ColorOf("sphere")
    /\ stats.call = 1

\* a value x.json() can produce: the body was delivered and parsed
Parsed(kind) == kind \in {"list", "stats", "other"}

C14_RefNotDangling ==
    /\ pointsRef # Null => (pointsRef \in scene /\ Live(pointsRef))
    /\ \A o \in ObjIds : objs[o].geoDisposed <= 1 /\ objs[o].matDisposed <= 1

\* C15: when no load is in flight and the load that completed most recently
\* succeeded, no error is displayed.
C15_ErrorReflectsLatest ==
    (~SomeInFlight /\ lastDone.outcome = "ok") => error = NoError

\* C16: the camera position is the spherical image of the orbit state: its
\* length is the radius and its direction is that of (azimuth, polar angle).
C16_CameraConsistent ==
    camera = PositionSet(radius, spherical.theta, spherical.phi)

\* a zoom after a drag: the last event was a wheel event that changed the
\* radius, the direction is the dragged one
C16_Witness ==
    /\ pointer.last = "wheel"
    /\ radius # InitRadius
    /\ spherical.theta # 0 /\ spherical.phi # PI \div 2
    /\ camera.len = radius /\ camera.theta = spherical.theta

\* C17: the controller is dragging exactly when the last button event was a
\* press on the viewport, and a pointer-move received while idle changes
\* neither the angles, the radius, the previous pointer position nor the camera.
C17_OrbitStateMachine ==
    /\ [](isDragging <=> pointer.pressed)
    /\ [][(pointer'.last = "move" /\ ~isDragging) =>
              UNCHANGED <<spherical, radius, prevMouse, camera, isDragging>>]_vars

\* idle after a drag has turned the camera, the last event a pointer-move
C17_Witness ==
    /\ ~isDragging
    /\ pointer = [pressed |-> FALSE, last |-> "move"]
    /\ spherical.theta # 0

\* the second orbit state InitView starts from is one the handlers produce
InitViewPoseReached ==
    /\ isDragging
    /\ prevMouse = [x |-> 100, y |-> 400]
    /\ spherical = [theta |-> -100 * DragGain, phi |-> ClampPhi(PI \div 2 + 400 * DragGain)]
    /\ radius = ClampRadius(InitRadius + 2000 * WheelGain)
    /\ camera = PositionSet(radius, spherical.theta, spherical.phi)
    /\ pointer = [pressed |-> TRUE, last |-> "move"]

\* C18: a step of loadShape (invocation, successful completion, failure)
\* leaves the azimuth, polar angle, radius, drag state, previous pointer
\* position and camera position as they are; a step that changes one of them
\* is a pointer event and changes nothing of the load state.
C18_OrbitPersists ==
    [][/\ (calls' # calls) => UNCHANGED orbitVars
       /\ (orbitVars' # orbitVars) =>
              (pointer'.last \in {"down", "up", "move", "wheel"} /\ UNCHANGED loadVars)]_vars

\* a load has completed successfully and another has failed while the camera
\* was dragged and zoomed away from its initial pose
C18_Witness ==
    /\ Len(calls) = MaxCalls /\ ~SomeInFlight
    /\ \E a, b \in CallIds : calls[a].pc = "ok" /\ calls[b].pc = "failed"
    /\ isDragging
    /\ spherical.theta # 0
    /\ radius = MinRadius
    /\ camera = PositionSet(radius, spherical.theta, spherical.phi)

\* the object a step has just built
Built == objs'[Len(objs')]

\* the step in which call id completes successfully
SucceedsNow(id) == calls[id].pc = "stats" /\ calls'[id].pc = "ok"

\* the colour is the one the mapping gives the name, never the white fallback
ColourOfName(o, name) ==
    /\ o.color = COLORS(name)
    /\ o.color \notin {"undefined", "#ffffff"}

====
